---- MODULE Spec2Model ----
(***************************************************************************)
(* A state-machine model of github.com/itpey/totp: the configuration       *)
(* resolver (config.go), engine construction (totp.go New), code           *)
(* generation through the two sync.Pools (GenerateForTime) and             *)
(* skew-window validation (ValidateForTime), run by concurrent goroutines  *)
(* that share one engine.                                                  *)
(*                                                                         *)
(* Conventions.                                                            *)
(*  - A Go string / []byte is a sequence of byte values 0..255.            *)
(*  - int64 is kept as a two's-complement integer of IntBits bits: every   *)
(*    int64 +, * and ++ of the code is followed by Wrap, and int64 / is    *)
(*    GoDiv (truncation toward zero).                                      *)
(*  - The keyed hash is library code (crypto/hmac over the selected hash). *)
(*    It is modelled by a deterministic function of (algorithm, key,       *)
(*    message written since the last Reset) whose output has the digest    *)
(*    size of the algorithm; the byte values are a stand-in mixing         *)
(*    function, the sizes are the real ones.                               *)
(***************************************************************************)
EXTENDS Integers, Sequences, FiniteSets, TLC

\* ------------------------------------------------------------------ bounds

\* Width in bits of the model's int64.
IntBits == 6

\* sync.Pool.Get may allocate although the pool holds an object (per-P caches,
\* GC); such spare allocations are capped. An empty pool always allocates.
MaxObjs == 1

\* ------------------------------------------------------- fixed-width ints

RECURSIVE Pow(_, _)
Pow(b, n) == IF n = 0 THEN 1 ELSE b * Pow(b, n - 1)

MaxInt == Pow(2, IntBits - 1) - 1
MinInt == -Pow(2, IntBits - 1)

\* Two's-complement wrap-around of an int64 result.
Wrap(x) == ((x - MinInt) % Pow(2, IntBits)) + MinInt

\* Go's integer division for a positive divisor: truncates toward zero.
GoDivFloor(a, b) == a \div b
GoDiv(a, b) == IF a >= 0 THEN a \div b ELSE -((-a) \div b)

\* ------------------------------------------------------------- config.go

DigitsFour == 4
DigitsFive == 5
DigitsSix == 6
DigitsEight == 8

AlgorithmSHA1 == 0
AlgorithmSHA224 == 1
AlgorithmSHA256 == 2
AlgorithmSHA384 == 3
AlgorithmSHA512 == 4
AlgorithmSHA3_224 == 5
AlgorithmSHA3_256 == 6
AlgorithmSHA3_384 == 7
AlgorithmSHA3_512 == 8
AlgorithmBLAKE2S_256 == 9
AlgorithmBLAKE2B_256 == 10
AlgorithmBLAKE2B_384 == 11
AlgorithmBLAKE2B_512 == 12
AlgorithmMD5 == 13

ConfigDefault ==
    [Algorithm |-> AlgorithmSHA1, Digits |-> DigitsSix, Period |-> 30,
     Secret |-> <<>>, Skew |-> 1]

\* Algorithm.hash: the digest size in bytes of the hash the switch returns.
HashSize(a) ==
    CASE a = AlgorithmSHA1 -> 20
      [] a = AlgorithmSHA224 -> 28
      [] a = AlgorithmSHA256 -> 32
      [] a = AlgorithmSHA384 -> 48
      [] a = AlgorithmSHA512 -> 64
      [] a = AlgorithmSHA3_224 -> 28
      [] a = AlgorithmSHA3_256 -> 32
      [] a = AlgorithmSHA3_384 -> 48
      [] a = AlgorithmSHA3_512 -> 64
      [] a = AlgorithmBLAKE2S_256 -> 32
      [] a = AlgorithmBLAKE2B_256 -> 32
      [] a = AlgorithmBLAKE2B_384 -> 48
      [] a = AlgorithmBLAKE2B_512 -> 64
      [] a = AlgorithmMD5 -> 16
      [] OTHER -> 20

\* configDefault(config ...Config): config is the variadic argument list.
configDefault(config) ==
    IF Len(config) < 1 THEN ConfigDefault
    ELSE LET c0 == config[1]
             c1 == IF c0.Algorithm < AlgorithmSHA1 \/ c0.Algorithm > AlgorithmMD5
                   THEN [c0 EXCEPT !.Algorithm = ConfigDefault.Algorithm] ELSE c0
             c2 == IF c1.Digits < DigitsFour \/ c1.Digits > DigitsEight
                   THEN [c1 EXCEPT !.Digits = ConfigDefault.Digits] ELSE c1
             c3 == IF c2.Period <= 0
                   THEN [c2 EXCEPT !.Period = ConfigDefault.Period] ELSE c2
             c4 == IF c3.Skew < 0
                   THEN [c3 EXCEPT !.Skew = ConfigDefault.Skew] ELSE c3
         IN c4

\* ------------------------------------------- base32.StdEncoding (RFC 4648)

Alphabet ==
    << 65, 66, 67, 68, 69, 70, 71, 72, 73, 74, 75, 76, 77, 78, 79, 80, 81, 82,
       83, 84, 85, 86, 87, 88, 89, 90, 50, 51, 52, 53, 54, 55 >>

PadChar == 61

\* decodeMap: the 5-bit value of an alphabet byte, 255 for any other byte.
DecodeMap(c) ==
    IF \E k \in 1..Len(Alphabet) : Alphabet[k] = c
    THEN (CHOOSE k \in 1..Len(Alphabet) : Alphabet[k] = c) - 1
    ELSE 255

\* stripNewlines: '\r' and '\n' are removed before decoding.
StripNewlines(s) == SelectSeq(s, LAMBDA c : c # 10 /\ c # 13)

\* One 8-character quantum of Encoding.decode: reads src from position j with
\* the 5-bit values read so far in dbuf.
RECURSIVE Quantum(_, _, _)
Quantum(src, j, dbuf) ==
    LET bad == [err |-> TRUE, dlen |-> 0, dbuf |-> dbuf, rest |-> src, end |-> FALSE]
    IN IF j = 8 THEN [err |-> FALSE, dlen |-> 8, dbuf |-> dbuf, rest |-> src, end |-> FALSE]
       ELSE IF Len(src) = 0 THEN bad
       ELSE LET in == Head(src)
                r == Tail(src)
            IN IF in = PadChar /\ j >= 2 /\ Len(r) < 8
               THEN IF Len(r) + j < 8 - 1 THEN bad
                    ELSE IF \E k \in 0..(8 - 1 - j - 1) : Len(r) > k /\ r[k + 1] # PadChar
                         THEN bad
                    ELSE IF j = 1 \/ j = 3 \/ j = 6 THEN bad
                    ELSE [err |-> FALSE, dlen |-> j, dbuf |-> dbuf, rest |-> r, end |-> TRUE]
               ELSE IF DecodeMap(in) = 255 THEN bad
               ELSE Quantum(r, j + 1, Append(dbuf, DecodeMap(in)))

\* The bytes packed out of one quantum of dlen 5-bit values.
Pack(dlen, dbuf) ==
    LET d == [k \in 0..7 |-> IF k < Len(dbuf) THEN dbuf[k + 1] ELSE 0]
        all == << (d[0] * 8 + d[1] \div 4) % 256,
                  (d[1] * 64 + d[2] * 2 + d[3] \div 16) % 256,
                  (d[3] * 16 + d[4] \div 2) % 256,
                  (d[4] * 128 + d[5] * 4 + d[6] \div 8) % 256,
                  (d[6] * 32 + d[7]) % 256 >>
        n == CASE dlen = 8 -> 5 [] dlen = 7 -> 4 [] dlen = 5 -> 3
               [] dlen = 4 -> 2 [] dlen = 2 -> 1 [] OTHER -> 0
    IN SubSeq(all, 1, n)

RECURSIVE Decode(_, _)
Decode(src, out) ==
    IF Len(src) = 0 THEN [err |-> FALSE, bytes |-> out]
    ELSE LET q == Quantum(src, 0, <<>>)
         IN IF q.err THEN [err |-> TRUE, bytes |-> <<>>]
            ELSE IF q.end THEN [err |-> FALSE, bytes |-> out \o Pack(q.dlen, q.dbuf)]
            ELSE Decode(q.rest, out \o Pack(q.dlen, q.dbuf))

\* base32.StdEncoding.DecodeString
DecodeString(s) == Decode(StripNewlines(s), <<>>)

\* ------------------------------------------------------------ keyed hash

RECURSIVE Mix(_, _)
Mix(s, h) == IF s = <<>> THEN h ELSE Mix(Tail(s), (h * 31 + Head(s) + 1) % 65521)

\* hmac.New(cfg.Algorithm.hash, decodedSecret) then Write(msg), Sum(nil): a
\* digest of HashSize bytes determined by (algorithm, key, message).
Hmac(alg, key, msg) ==
    LET seed == (Mix(key, 7) * 257 + Mix(msg, 11) * 263 + alg * 1009) % 65521
    IN [k \in 1..HashSize(alg) |->
            ((seed + 1) * (2 * k + 3) + (seed \div 7) + k * k) % 256]

\* hash.Hash.Reset on a holder whose state is the message written so far.
HmacResetStale(state) == state
HmacReset(state) == <<>>

\* hash.Hash.Write
HmacWrite(state, p) == state \o p

\* ------------------------------------------------------ totp.go helpers

\* x >> (8 * i) on a signed integer: an arithmetic shift.
RECURSIVE Shr8(_, _)
Shr8(x, i) == IF i = 0 THEN x ELSE Shr8(x \div 256, i - 1)

\* Lines 74-76: (*timeBytes)[7-i] = byte(timeStep >> (8 * i)) for i in 0..7.
TimeBytes(timeStep) == [k \in 1..8 |-> Shr8(timeStep, 8 - k) % 256]

\* Line 87: offset := hmacResult[len(hmacResult)-1] & 0x0F
Offset(hmacResult) == hmacResult[Len(hmacResult)] % 16

\* Lines 88-91 index hmacResult[offset .. offset+3]; Go panics (index out of
\* range) when offset+3 >= len(hmacResult).
InRange(hmacResult) == Offset(hmacResult) + 3 < Len(hmacResult)

\* Lines 88-91: the 31-bit big-endian value at offset.
BinaryCode(hmacResult) ==
    LET o == Offset(hmacResult)
    IN (hmacResult[o + 1] % 128) * 16777216 + hmacResult[o + 2] * 65536
       + hmacResult[o + 3] * 256 + hmacResult[o + 4]

\* formatCode: buf[i] = '0' + code%10, code /= 10, for i = digits-1 .. 0;
\* the string returned is buf[:digits].
RECURSIVE formatCode(_, _)
formatCode(code, digits) ==
    IF digits = 0 THEN <<>>
    ELSE Append(formatCode(code \div 10, digits - 1), 48 + (code % 10))

\* Lines 94-100: totpCode := binaryCode % divisor, then the formatted string.
CodeString(hmacResult, divisor, digits) ==
    formatCode(BinaryCode(hmacResult) % divisor, digits)

\* `for _, r := range s`: UTF-8 decoding of a string whose bytes are below
\* 0xE0 (one- and two-byte encodings; anything else is utf8.RuneError).
RuneError == 65533
RECURSIVE Runes(_)
Runes(s) ==
    IF s = <<>> THEN <<>>
    ELSE IF s[1] < 128 THEN <<s[1]>> \o Runes(Tail(s))
    ELSE IF s[1] >= 194 /\ s[1] <= 223 /\ Len(s) >= 2 /\ s[2] >= 128 /\ s[2] <= 191
         THEN <<(s[1] - 192) * 64 + (s[2] - 128)>> \o Runes(SubSeq(s, 3, Len(s)))
    ELSE <<RuneError>> \o Runes(Tail(s))

\* unicode.IsDigit for runes below U+0800 and RuneError: category Nd, that is
\* '0'..'9', Arabic-Indic U+0660.., Extended Arabic-Indic U+06F0.., NKo U+07C0..
IsDigit(r) ==
    \/ (r >= 48 /\ r <= 57)
    \/ (r >= 1632 /\ r <= 1641)
    \/ (r >= 1776 /\ r <= 1785)
    \/ (r >= 1984 /\ r <= 1993)

\* isValidInteger
isValidInteger(s) == \A k \in 1..Len(Runes(s)) : IsDigit(Runes(s)[k])

\* subtle.ConstantTimeCompare(x, y) == 1
ConstantTimeCompare(x, y) == Len(x) = Len(y) /\ \A k \in 1..Len(x) : x[k] = y[k]

\* sync.Pool: Get removes the object it hands out, Put adds it back.
PoolTakeKeep(pool, x) == pool
PoolTake(pool, x) == pool \ {x}
PoolPut(pool, x) == pool \cup {x}

\* ------------------------------------------------------------------ state

VARIABLES
    arg,        \* the variadic argument list New is called with
    engine,     \* the *TOTP New returned (cfg, divisor, decodedSecret), or its panic
    tbPool,     \* timeBytesPool: the *[8]byte objects lying in the pool
    tbMem,      \* the contents of every *[8]byte allocated so far
    hmPool,     \* hmacPool: the *hmacHolder objects lying in the pool
    hmMem,      \* every hmacHolder's hash state: the message written since Reset
    gs          \* per goroutine: program counter, locals, result of its call

vars == <<arg, engine, tbPool, tbMem, hmPool, hmMem, gs>>

Procs == {"g1", "g2"}
SeqProcs == {"g1"}

NoEngine == [state |-> "none", cfg |-> ConfigDefault, divisor |-> 0, decodedSecret |-> <<>>]
Panicked == [state |-> "panic", cfg |-> ConfigDefault, divisor |-> 0, decodedSecret |-> <<>>]

NoRes == [kind |-> "none", code |-> <<>>, ok |-> FALSE]
PanicRes == [kind |-> "panic", code |-> <<>>, ok |-> FALSE]
FormatErr == [kind |-> "formaterr", code |-> <<>>, ok |-> FALSE]
CodeRes(c) == [kind |-> "code", code |-> c, ok |-> FALSE]
BoolRes(b) == [kind |-> "bool", code |-> <<>>, ok |-> b]

Idle ==
    [pc |-> "idle", op |-> "none", t |-> 0, totp |-> <<>>, gt |-> 0,
     timeStep |-> 0, tb |-> 0, hm |-> 0, hmacResult |-> <<>>, panicking |-> FALSE,
     code |-> <<>>, baseTimeStep |-> 0, i |-> 0, vStep |-> 0, gens |-> 0,
     res |-> NoRes]

\* ------------------------------------------------------------------- New

\* New, lines 30-63: resolve the configuration, decode the secret (panic on
\* error), compute the divisor, build the two (empty) pools.
NewIgnoreErr ==
    /\ engine.state = "none"
    /\ LET cfg == configDefault(arg)
           d == DecodeString(cfg.Secret)
       IN engine' = [state |-> "ready", cfg |-> cfg,
                     divisor |-> Pow(10, cfg.Digits), decodedSecret |-> d.bytes]
    /\ UNCHANGED <<arg, tbPool, tbMem, hmPool, hmMem, gs>>
New ==
    /\ engine.state = "none"
    /\ LET cfg == configDefault(arg)
           d == DecodeString(cfg.Secret)
       IN engine' = IF d.err THEN Panicked
                    ELSE [state |-> "ready", cfg |-> cfg,
                          divisor |-> Pow(10, cfg.Digits), decodedSecret |-> d.bytes]
    /\ UNCHANGED <<arg, tbPool, tbMem, hmPool, hmMem, gs>>

\* ------------------------------------------------------- GenerateForTime

\* Entry of GenerateForTime(t) and line 67: timeStep := t.Unix() / o.cfg.Period
Enter(s, t) ==
    [s EXCEPT !.gt = t, !.timeStep = GoDiv(t, engine.cfg.Period), !.pc = "getTB",
              !.tb = 0, !.hm = 0, !.hmacResult = <<>>, !.panicking = FALSE,
              !.code = <<>>]

\* A goroutine that holds the engine and is not inside a call may call it.
Callable(g) ==
    /\ engine.state = "ready"
    /\ gs[g].pc = "idle"

\* A goroutine calls o.GenerateForTime(time.Unix(t, 0)).
GenerateForTime(g, t) ==
    /\ Callable(g)
    /\ gs' = [gs EXCEPT ![g] = Enter([Idle EXCEPT !.op = "gen", !.t = t], t)]
    /\ UNCHANGED <<arg, engine, tbPool, tbMem, hmPool, hmMem>>

\* Lines 70-71: timeBytes := o.timeBytesPool.Get(); defer Put. Get hands out a
\* pooled object or, the pool being empty (or its caches missed), New's
\* zeroed array.
GetTimeBytes(g) ==
    /\ gs[g].pc = "getTB"
    /\ \/ \E x \in tbPool :
            /\ tbPool' = PoolTake(tbPool, x)
            /\ tbMem' = tbMem
            /\ gs' = [gs EXCEPT ![g].tb = x, ![g].pc = "fill"]
       \/ /\ tbPool = {} \/ Len(tbMem) < MaxObjs
          /\ tbMem' = Append(tbMem, [k \in 1..8 |-> 0])
          /\ tbPool' = tbPool
          /\ gs' = [gs EXCEPT ![g].tb = Len(tbMem) + 1, ![g].pc = "fill"]
    /\ UNCHANGED <<arg, engine, hmPool, hmMem>>

\* Lines 74-76: the time step written big-endian into all 8 bytes.
FillTimeBytes(g) ==
    /\ gs[g].pc = "fill"
    /\ tbMem' = [tbMem EXCEPT ![gs[g].tb] = TimeBytes(gs[g].timeStep)]
    /\ gs' = [gs EXCEPT ![g].pc = "getH"]
    /\ UNCHANGED <<arg, engine, tbPool, hmPool, hmMem>>

\* Lines 79-80: hmacInstance := o.hmacPool.Get(); defer Put. New's holder is
\* a fresh hmac.New(cfg.Algorithm.hash, decodedSecret).
GetHmac(g) ==
    /\ gs[g].pc = "getH"
    /\ \/ \E x \in hmPool :
            /\ hmPool' = PoolTake(hmPool, x)
            /\ hmMem' = hmMem
            /\ gs' = [gs EXCEPT ![g].hm = x, ![g].pc = "reset"]
       \/ /\ hmPool = {} \/ Len(hmMem) < MaxObjs
          /\ hmMem' = Append(hmMem, <<>>)
          /\ hmPool' = hmPool
          /\ gs' = [gs EXCEPT ![g].hm = Len(hmMem) + 1, ![g].pc = "reset"]
    /\ UNCHANGED <<arg, engine, tbPool, tbMem>>

\* Line 82: hmacInstance.h.Reset()
Reset(g) ==
    /\ gs[g].pc = "reset"
    /\ hmMem' = [hmMem EXCEPT ![gs[g].hm] = HmacReset(@)]
    /\ gs' = [gs EXCEPT ![g].pc = "write"]
    /\ UNCHANGED <<arg, engine, tbPool, tbMem, hmPool>>

\* Line 83: hmacInstance.h.Write(timeBytes[:])
Write(g) ==
    /\ gs[g].pc = "write"
    /\ hmMem' = [hmMem EXCEPT ![gs[g].hm] = HmacWrite(@, tbMem[gs[g].tb])]
    /\ gs' = [gs EXCEPT ![g].pc = "sum"]
    /\ UNCHANGED <<arg, engine, tbPool, tbMem, hmPool>>

\* Line 84: hmacResult := hmacInstance.h.Sum(nil)
Sum(g) ==
    /\ gs[g].pc = "sum"
    /\ gs' = [gs EXCEPT ![g].hmacResult =
                  Hmac(engine.cfg.Algorithm, engine.decodedSecret, hmMem[gs[g].hm]),
                        ![g].pc = "trunc"]
    /\ UNCHANGED <<arg, engine, tbPool, tbMem, hmPool, hmMem>>

\* Lines 87-100: dynamic truncation, modulus, formatting. An index past the
\* digest panics; the deferred Puts then run while the panic unwinds.
Truncate(g) ==
    /\ gs[g].pc = "trunc"
    /\ gs' = IF InRange(gs[g].hmacResult)
             THEN [gs EXCEPT ![g].code = CodeString(gs[g].hmacResult, engine.divisor,
                                                    engine.cfg.Digits),
                             ![g].pc = "putH"]
             ELSE [gs EXCEPT ![g].panicking = TRUE, ![g].pc = "putH"]
    /\ UNCHANGED <<arg, engine, tbPool, tbMem, hmPool, hmMem>>

\* Deferred (line 80): o.hmacPool.Put(hmacInstance)
PutHmac(g) ==
    /\ gs[g].pc = "putH"
    /\ hmPool' = PoolPut(hmPool, gs[g].hm)
    /\ gs' = [gs EXCEPT ![g].hm = 0, ![g].pc = "putTB"]
    /\ UNCHANGED <<arg, engine, tbPool, tbMem, hmMem>>

\* Deferred (line 71): o.timeBytesPool.Put(timeBytes); then GenerateForTime
\* returns (code, nil) or its panic goes on to the caller. ValidateForTime
\* has no recover: a panic of the generator ends the validation too.
PutTimeBytes(g) ==
    /\ gs[g].pc = "putTB"
    /\ tbPool' = PoolPut(tbPool, gs[g].tb)
    /\ gs' = [gs EXCEPT ![g] =
                 LET s == [@ EXCEPT !.tb = 0, !.hmacResult = <<>>]
                 IN IF s.panicking THEN [s EXCEPT !.pc = "done", !.res = PanicRes]
                    ELSE IF s.op = "gen"
                         THEN [s EXCEPT !.pc = "done", !.res = CodeRes(s.code)]
                    ELSE [s EXCEPT !.pc = "compare"]]
    /\ UNCHANGED <<arg, engine, tbMem, hmPool, hmMem>>

\* ------------------------------------------------------- ValidateForTime

\* The model follows a validation for at most GenCap generations: one more
\* than the int64 loop counter has values.
GenCap == Pow(2, IntBits) + 1

\* A goroutine calls o.ValidateForTime(totp, time.Unix(t, 0)); lines 124-131:
\* the format check, baseTimeStep, and the loop's i := -o.cfg.Skew.
ValidateForTime(g, totp, t) ==
    /\ Callable(g)
    /\ gs' = [gs EXCEPT ![g] =
                 LET s == [Idle EXCEPT !.op = "val", !.t = t, !.totp = totp]
                 IN IF Len(totp) # engine.cfg.Digits \/ ~isValidInteger(totp)
                    THEN [s EXCEPT !.pc = "done", !.res = FormatErr]
                    ELSE [s EXCEPT !.baseTimeStep = GoDiv(t, engine.cfg.Period),
                                   !.i = Wrap(-engine.cfg.Skew), !.pc = "loop"]]
    /\ UNCHANGED <<arg, engine, tbPool, tbMem, hmPool, hmMem>>

\* Lines 131-133: the loop condition i <= o.cfg.Skew; in the body
\* timeStep := baseTimeStep + int64(i) and the call
\* o.GenerateForTime(time.Unix(timeStep*o.cfg.Period, 0)). Line 144 after the
\* loop: return false, nil.
Loop(g) ==
    /\ gs[g].pc = "loop"
    /\ gs[g].gens < GenCap
    /\ gs' = [gs EXCEPT ![g] =
                 IF @.i <= engine.cfg.Skew
                 THEN LET step == Wrap(@.baseTimeStep + @.i)
                      IN Enter([@ EXCEPT !.vStep = step, !.gens = @ + 1],
                               Wrap(step * engine.cfg.Period))
                 ELSE [@ EXCEPT !.pc = "done", !.res = BoolRes(FALSE)]]
    /\ UNCHANGED <<arg, engine, tbPool, tbMem, hmPool, hmMem>>

\* Lines 134-141: err is nil; the constant-time comparison, return true, nil
\* on a match, else i++.
Compare(g) ==
    /\ gs[g].pc = "compare"
    /\ gs' = [gs EXCEPT ![g] =
                 IF ConstantTimeCompare(@.totp, @.code)
                 THEN [@ EXCEPT !.pc = "done", !.res = BoolRes(TRUE)]
                 ELSE [@ EXCEPT !.i = Wrap(@ + 1), !.pc = "loop"]]
    /\ UNCHANGED <<arg, engine, tbPool, tbMem, hmPool, hmMem>>

\* One step inside a call.
Step(g) ==
    \/ GetTimeBytes(g)
    \/ FillTimeBytes(g)
    \/ GetHmac(g)
    \/ Reset(g)
    \/ Write(g)
    \/ Sum(g)
    \/ Truncate(g)
    \/ PutHmac(g)
    \/ PutTimeBytes(g)
    \/ Loop(g)
    \/ Compare(g)

\* ------------------------------------------- a call run alone, start to end

\* GenerateForTime from line 73 on for a time step, on fresh scratch objects:
\* the result of lines 73-100.
RefCode(e, timeStep) ==
    LET h == Hmac(e.cfg.Algorithm, e.decodedSecret,
                  HmacWrite(HmacReset(<<>>), TimeBytes(timeStep)))
    IN IF InRange(h) THEN CodeRes(CodeString(h, e.divisor, e.cfg.Digits))
       ELSE PanicRes

\* GenerateForTime(t), lines 66-101, as one function of (engine, instant).
PureGenerate(e, t) == RefCode(e, GoDiv(t, e.cfg.Period))

\* The loop of ValidateForTime, lines 131-144, from counter i on; fuel bounds
\* the unrolling as GenCap bounds Loop.
RECURSIVE PureLoop(_, _, _, _, _)
PureLoop(e, totp, base, i, fuel) ==
    IF fuel = 0 THEN NoRes
    ELSE IF i > e.cfg.Skew THEN BoolRes(FALSE)
    ELSE LET step == Wrap(base + i)
             r == PureGenerate(e, Wrap(step * e.cfg.Period))
         IN IF r.kind = "panic" THEN PanicRes
            ELSE IF ConstantTimeCompare(totp, r.code) THEN BoolRes(TRUE)
            ELSE PureLoop(e, totp, base, Wrap(i + 1), fuel - 1)

\* ValidateForTime(totp, t), lines 123-145, as one function.
PureValidate(e, totp, t) ==
    IF Len(totp) # e.cfg.Digits \/ ~isValidInteger(totp) THEN FormatErr
    ELSE PureLoop(e, totp, GoDiv(t, e.cfg.Period), Wrap(-e.cfg.Skew), GenCap)

\* ----------------------------------------------------------------- inputs

Cfg(a, d, p, sk, sec) ==
    [Algorithm |-> a, Digits |-> d, Period |-> p, Secret |-> sec, Skew |-> sk]

\* Secret texts. "MFRGGZDF" (abcde), "AE======" (one byte), "JBSW\nY3DP" with a
\* line break, and texts DecodeString rejects: a short quantum "AE=====",
\* a byte outside the alphabet "AE1=====", lower case "ae======", an
\* impossible data length "AEA=====", missing padding "AE".
SecretAbcde == <<77, 70, 82, 71, 71, 90, 68, 70>>
SecretOne == <<65, 69, 61, 61, 61, 61, 61, 61>>
SecretNewline == <<74, 66, 83, 87, 10, 89, 51, 68, 80>>
GoodSecrets == {<<>>, SecretAbcde, SecretOne, SecretNewline}
BadSecrets ==
    { <<65, 69, 61, 61, 61, 61, 61>>,
      <<65, 69, 49, 61, 61, 61, 61, 61>>,
      <<97, 101, 61, 61, 61, 61, 61, 61>>,
      <<65, 69, 65, 61, 61, 61, 61, 61>>,
      <<65, 69>> }

\* Arguments of New for the resolver: every field inside, at the edge of and
\* outside its domain.
NewArgs ==
    {<<>>} \cup
    { <<Cfg(a, d, p, sk, sec)>> :
        a \in (AlgorithmSHA1 - 2)..(AlgorithmMD5 + 2),
        d \in 0..(DigitsEight + 2),
        p \in {MinInt, -1, 0, 1, 30, MaxInt},
        sk \in {MinInt, -1, 0, 1, MaxInt},
        sec \in {SecretAbcde, <<65, 69>>} }

\* Engines for single calls.
SeqArgs ==
    {<<>>} \cup
    { <<Cfg(a, d, p, sk, SecretAbcde)>> :
        a \in {AlgorithmSHA1, AlgorithmSHA512, AlgorithmMD5},
        d \in {DigitsFour, DigitsFive, 7, DigitsEight},
        p \in {3, 30}, sk \in {0, 1} } \cup
    { <<Cfg(AlgorithmSHA256, DigitsSix, 1, 2, SecretNewline)>> } \cup
    { <<Cfg(AlgorithmSHA1, DigitsSix, 30, 1, sec)>> : sec \in BadSecrets }

SeqTimes == {MinInt, -31, -4, -1, 0, 1, 29, 30, MaxInt}

\* Engines whose skew is at and next to the largest int64.
SkewArgs ==
    { <<Cfg(AlgorithmSHA1, DigitsSix, p, sk, SecretOne)>> :
        p \in {1, 30}, sk \in {MaxInt - 1, MaxInt} }
SkewTimes == {MinInt, -1, 0, MaxInt}

\* Engines and instants for concurrent calls.
ConcArgs == {<<>>, <<Cfg(AlgorithmMD5, DigitsEight, 3, 0, SecretAbcde)>>}
ConcTimes == {-4, 0, 31}

Repeat(b, n) == [k \in 1..n |-> b]

\* Candidates: the codes of the steps around t, and malformed strings: one
\* byte short, one long, a letter, a byte that is no UTF-8, and digits
\* U+0660 (bytes D9 A0) filling the byte length.
WindowCodes(e, t, w) ==
    { RefCode(e, Wrap(GoDiv(t, e.cfg.Period) + k)).code :
        k \in { j \in (-w)..w :
                  RefCode(e, Wrap(GoDiv(t, e.cfg.Period) + j)).kind = "code" } }
Malformed(d) ==
    { Repeat(48, d - 1), Repeat(48, d + 1),
      [Repeat(48, d) EXCEPT ![1] = 97],
      [Repeat(48, d) EXCEPT ![d] = 255],
      [k \in 1..d |-> IF k <= (d % 2) THEN 48
                      ELSE IF (k - (d % 2)) % 2 = 1 THEN 217 ELSE 160] }
SeqCands(e, t) ==
    IF e.state # "ready" THEN {}
    ELSE WindowCodes(e, t, 2) \cup Malformed(e.cfg.Digits) \cup {Repeat(48, e.cfg.Digits)}
ConcCands(e, t) ==
    IF e.state # "ready" THEN {}
    ELSE WindowCodes(e, t, 0) \cup {Repeat(48, e.cfg.Digits)}

\* --------------------------------------------------------- specifications

InitWith(args) ==
    /\ arg \in args
    /\ engine = NoEngine
    /\ tbPool = {}
    /\ tbMem = <<>>
    /\ hmPool = {}
    /\ hmMem = <<>>
    /\ gs = [g \in Procs |-> Idle]

\* The resolver and the constructor alone.
InitNew == InitWith(NewArgs)
NextNew == New
SpecNew == InitNew /\ [][NextNew]_vars

\* One goroutine making one call on a fresh engine.
InitSeq == InitWith(SeqArgs)
NextSeq ==
    \/ New
    \/ \E g \in SeqProcs :
        \/ \E t \in SeqTimes : GenerateForTime(g, t)
        \/ /\ Callable(g)
           /\ \E t \in SeqTimes : \E totp \in SeqCands(engine, t) :
                 ValidateForTime(g, totp, t)
        \/ Step(g)
SpecSeq == InitSeq /\ [][NextSeq]_vars

\* One goroutine validating under the largest skews.
InitSkew == InitWith(SkewArgs)
NextSkew ==
    \/ New
    \/ \E g \in SeqProcs :
        \/ /\ Callable(g)
           /\ \E t \in SkewTimes : \E totp \in SeqCands(engine, t) :
                 ValidateForTime(g, totp, t)
        \/ Step(g)
SpecSkew == InitSkew /\ [][NextSkew]_vars

\* Goroutines sharing one engine, each making a call.
Init == InitWith(ConcArgs)
Next ==
    \/ New
    \/ \E g \in Procs :
        \/ \E t \in ConcTimes : GenerateForTime(g, t)
        \/ /\ Callable(g)
           /\ \E t \in ConcTimes : \E totp \in ConcCands(engine, t) :
                 ValidateForTime(g, totp, t)
        \/ Step(g)
Spec == Init /\ [][Next]_vars

\* ------------------------------------------------------------------ claims

GenPcs == {"getTB", "fill", "getH", "reset", "write", "sum", "trunc", "putH", "putTB"}
\* A string made only of the characters '0'..'9'.
AsciiDigits(str) == \A k \in 1..Len(str) : str[k] >= 48 /\ str[k] <= 57
Representable(x) == MinInt <= x /\ x <= MaxInt

\* The minimal decimal rendering of n >= 0, and its left padding with '0'.
RECURSIVE Decimal(_)
Decimal(n) == IF n < 10 THEN <<48 + n>> ELSE Append(Decimal(n \div 10), 48 + (n % 10))
PadLeft(str, width) == IF Len(str) >= width THEN str ELSE Repeat(48, width - Len(str)) \o str

\* C1: every GenerateForTime call returns the reference code: with digest =
\* HMAC(secret, 8-byte big-endian time step), offset = last byte & 0x0F and
\* binaryCode = the 4 bytes at offset, big-endian, top bit cleared, the result
\* is the decimal rendering of binaryCode mod 10^codeDigits left-padded with
\* '0' to codeDigits characters, all of them decimal digits.
C1_GenerateReturnsReferenceCode ==
    \A g \in Procs :
        (gs[g].op = "gen" /\ gs[g].pc = "done") =>
            LET digest == Hmac(engine.cfg.Algorithm, engine.decodedSecret,
                               TimeBytes(GoDiv(gs[g].t, engine.cfg.Period)))
                offset == digest[Len(digest)] % 16
            IN /\ gs[g].res.kind = "code"
               /\ Len(gs[g].res.code) = engine.cfg.Digits
               /\ AsciiDigits(gs[g].res.code)
               /\ offset + 4 <= Len(digest)
               /\ gs[g].res.code =
                    PadLeft(Decimal(((digest[offset + 1] % 128) * 16777216
                                     + digest[offset + 2] * 65536
                                     + digest[offset + 3] * 256
                                     + digest[offset + 4])
                                    % Pow(10, engine.cfg.Digits)),
                            engine.cfg.Digits)

\* C1 on the calls whose four bytes lie inside the digest.
GenerateReferenceWhenInRange ==
    \A g \in Procs :
        (gs[g].op = "gen" /\ gs[g].pc = "done" /\ gs[g].res.kind = "code") =>
            LET digest == Hmac(engine.cfg.Algorithm, engine.decodedSecret,
                               TimeBytes(GoDiv(gs[g].t, engine.cfg.Period)))
                offset == digest[Len(digest)] % 16
            IN /\ Len(gs[g].res.code) = engine.cfg.Digits
               /\ AsciiDigits(gs[g].res.code)
               /\ gs[g].res.code =
                    PadLeft(Decimal(((digest[offset + 1] % 128) * 16777216
                                     + digest[offset + 2] * 65536
                                     + digest[offset + 3] * 256
                                     + digest[offset + 4])
                                    % Pow(10, engine.cfg.Digits)),
                            engine.cfg.Digits)

\* C2: for a candidate of codeDigits characters '0'..'9', ValidateForTime
\* returns valid exactly when the candidate is the code of a step
\* baseStep + i with -skew <= i <= skew, and invalid (no error) otherwise.
C2_ValidIffWindowCode ==
    \A g \in Procs :
        (/\ gs[g].op = "val"
         /\ gs[g].pc = "done"
         /\ Len(gs[g].totp) = engine.cfg.Digits
         /\ AsciiDigits(gs[g].totp)) =>
            /\ gs[g].res.kind = "bool"
            /\ gs[g].res.ok <=>
                 \E i \in (-engine.cfg.Skew)..engine.cfg.Skew :
                    LET r == RefCode(engine, GoDiv(gs[g].t, engine.cfg.Period) + i)
                    IN r.kind = "code" /\ r.code = gs[g].totp

\* C3: GenerateForTime cannot fail: the four bytes read at offset..offset+3
\* lie inside the digest of every supported algorithm, and every call
\* returns a code.
C3_GenerateNeverFails ==
    \A g \in Procs :
        /\ gs[g].pc = "trunc" => Offset(gs[g].hmacResult) + 3 < Len(gs[g].hmacResult)
        /\ (gs[g].op = "gen" /\ gs[g].pc = "done") => gs[g].res.kind = "code"

\* C4: a candidate whose length differs from codeDigits or that holds a
\* character other than '0'..'9' is rejected at once with the format error
\* and no code is generated for it; a candidate of codeDigits decimal digits
\* never gets the format error.
C4_FormatRejection ==
    \A g \in Procs :
        gs[g].op = "val" =>
            IF Len(gs[g].totp) # engine.cfg.Digits \/ ~AsciiDigits(gs[g].totp)
            THEN gs[g].pc = "done" /\ gs[g].res = FormatErr /\ gs[g].gens = 0
            ELSE gs[g].res.kind # "formaterr"

\* The rejection the format check does give: never valid, whatever the check
\* lets through.
MalformedNeverValid ==
    \A g \in Procs :
        (/\ gs[g].op = "val"
         /\ gs[g].pc = "done"
         /\ (Len(gs[g].totp) # engine.cfg.Digits \/ ~AsciiDigits(gs[g].totp))) =>
            ~(gs[g].res.kind = "bool" /\ gs[g].res.ok)

\* C5: the resolver returns SHA-1 / 6 / 30 / 1 for no configuration and, for
\* a given one, replaces each field outside its domain (digest not one of the
\* 14 algorithms, digits outside {4,5,6,8}, period <= 0, skew < 0) by its
\* default and keeps every other field and the secret.
C5_ResolverDomains ==
    engine.state = "ready" =>
        IF arg = <<>>
        THEN /\ engine.cfg.Algorithm = AlgorithmSHA1
             /\ engine.cfg.Digits = 6
             /\ engine.cfg.Period = 30
             /\ engine.cfg.Skew = 1
        ELSE LET in == arg[1]
             IN /\ engine.cfg.Algorithm =
                     IF in.Algorithm \in AlgorithmSHA1..AlgorithmMD5
                     THEN in.Algorithm ELSE AlgorithmSHA1
                /\ engine.cfg.Digits =
                     IF in.Digits \in {4, 5, 6, 8} THEN in.Digits ELSE 6
                /\ engine.cfg.Period = IF in.Period > 0 THEN in.Period ELSE 30
                /\ engine.cfg.Skew = IF in.Skew >= 0 THEN in.Skew ELSE 1
                /\ engine.cfg.Secret = in.Secret

\* What the resolver does guarantee: digits in 4..8, the other fields as C5 says.
ResolverRange ==
    engine.state = "ready" =>
        /\ engine.cfg.Algorithm \in AlgorithmSHA1..AlgorithmMD5
        /\ engine.cfg.Digits \in DigitsFour..DigitsEight
        /\ engine.cfg.Period > 0
        /\ engine.cfg.Skew >= 0

\* RFC 4648 base32 text (after removing line breaks): whole 8-character
\* quanta of alphabet characters, the last one possibly ending in 1, 3, 4 or
\* 6 pad characters.
WellFormedBase32(text) ==
    LET str == StripNewlines(text)
        n == Len(str)
        pads == Cardinality({k \in 1..n : str[k] = PadChar})
    IN /\ n % 8 = 0
       /\ pads \in {0, 1, 3, 4, 6}
       /\ \A k \in 1..n :
            IF k > n - pads THEN str[k] = PadChar
            ELSE \E a \in 1..Len(Alphabet) : Alphabet[a] = str[k]

\* C6: New aborts exactly when the secret text is no base32; otherwise the
\* engine holds the resolved configuration, 10^codeDigits and the decoded
\* key, and no later step of any call changes the engine; no call runs
\* without an engine.
C6_ConstructionAndImmutability ==
    [][ /\ (engine.state = "none" /\ engine'.state # "none") =>
              LET cfg == configDefault(arg)
              IN IF WellFormedBase32(cfg.Secret)
                 THEN /\ engine'.state = "ready"
                      /\ engine'.cfg = cfg
                      /\ engine'.divisor = Pow(10, cfg.Digits)
                      /\ engine'.decodedSecret = DecodeString(cfg.Secret).bytes
                 ELSE engine'.state = "panic"
        /\ engine.state # "none" => engine' = engine
        /\ (\E g \in Procs : gs'[g].pc # "idle") => engine.state = "ready" ]_vars

C6_Witness ==
    /\ engine.state = "ready"
    /\ engine.decodedSecret = <<72, 101, 108, 108, 111>>
    /\ engine.divisor = 1000000
    /\ \E g \in Procs : gs[g].op = "val" /\ gs[g].pc = "done" /\ gs[g].gens >= 2

\* C7: whatever the interleaving and whatever earlier calls left in the
\* pools, a finished call has the result the same call gives when run alone
\* on a fresh engine of the same configuration.
C7_ResultsArePure ==
    \A g \in Procs :
        gs[g].pc = "done" =>
            gs[g].res = IF gs[g].op = "gen" THEN PureGenerate(engine, gs[g].t)
                        ELSE PureValidate(engine, gs[g].totp, gs[g].t)

C7_Witness ==
    /\ gs["g1"].pc = "done" /\ gs["g1"].res.kind = "code"
    /\ gs["g2"].pc = "done" /\ gs["g2"].res = BoolRes(TRUE) /\ gs["g2"].gens >= 2
    /\ gs["g1"].t # gs["g2"].t
    /\ Len(tbMem) = 2 /\ Len(hmMem) = 1

\* C8 as stated: the generator's step and the validator's base step are
\* floor(unixSeconds / period) for every instant, and the generator maps the
\* instant s * period of every window step s = baseStep + i to step s.
C8_FloorForEveryInstant ==
    \A g \in Procs :
        /\ (gs[g].op = "gen" /\ gs[g].pc \in GenPcs) =>
              gs[g].timeStep = gs[g].t \div engine.cfg.Period
        /\ (gs[g].op = "val" /\ gs[g].pc \in GenPcs \cup {"loop", "compare"}) =>
              gs[g].baseTimeStep = gs[g].t \div engine.cfg.Period
        /\ (gs[g].op = "val" /\ gs[g].pc \in GenPcs) =>
              gs[g].timeStep = gs[g].baseTimeStep + gs[g].i

\* C8 amended: the steps are unixSeconds / period truncated toward zero,
\* which is the floor for unixSeconds >= 0; and a window step s = baseStep + i
\* is mapped back to s whenever s and s * period are representable.
C8_TruncatedStep ==
    \A g \in Procs :
        LET p == engine.cfg.Period
            trunc(t) == IF t >= 0 THEN t \div p ELSE -((-t) \div p)
        IN /\ (gs[g].op = "gen" /\ gs[g].pc \in GenPcs) =>
                 gs[g].timeStep = trunc(gs[g].t)
           /\ (gs[g].op = "val" /\ gs[g].pc \in GenPcs \cup {"loop", "compare"}) =>
                 gs[g].baseTimeStep = trunc(gs[g].t)
           /\ (/\ gs[g].op = "val"
               /\ gs[g].pc \in GenPcs
               /\ Representable(gs[g].baseTimeStep + gs[g].i)
               /\ Representable((gs[g].baseTimeStep + gs[g].i) * p)) =>
                 gs[g].timeStep = gs[g].baseTimeStep + gs[g].i

C8_Witness ==
    \E g \in Procs :
        /\ gs[g].op = "val" /\ gs[g].pc = "fill"
        /\ gs[g].t = 29 /\ engine.cfg.Period = 3
        /\ gs[g].i = 1 /\ gs[g].timeStep = 10 /\ gs[g].gt = 30

\* C9: pool discipline. Every scratch object is in its pool or held by exactly
\* one call; a call holds its objects exactly between Get and the deferred
\* Put; the buffer holds this call's 8 bytes and the hash state exactly those
\* 8 bytes when they are used; with no call in flight nothing is checked out;
\* a Get is never blocked.
C9_PoolDiscipline ==
    LET inTB == {"fill", "getH", "reset", "write", "sum", "trunc", "putH", "putTB"}
        inHM == {"reset", "write", "sum", "trunc", "putH"}
    IN /\ tbPool \subseteq 1..Len(tbMem)
       /\ hmPool \subseteq 1..Len(hmMem)
       /\ \A g \in Procs :
            /\ gs[g].pc \in inTB <=> gs[g].tb # 0
            /\ gs[g].pc \in inHM <=> gs[g].hm # 0
            /\ gs[g].tb # 0 => gs[g].tb \in (1..Len(tbMem)) \ tbPool
            /\ gs[g].hm # 0 => gs[g].hm \in (1..Len(hmMem)) \ hmPool
            /\ gs[g].pc \in {"getH", "reset", "write"} =>
                 tbMem[gs[g].tb] = TimeBytes(gs[g].timeStep)
            /\ gs[g].pc = "write" => hmMem[gs[g].hm] = <<>>
            /\ gs[g].pc = "sum" => hmMem[gs[g].hm] = TimeBytes(gs[g].timeStep)
            /\ gs[g].pc = "getTB" => ENABLED GetTimeBytes(g)
            /\ gs[g].pc = "getH" => ENABLED GetHmac(g)
       /\ \A g \in Procs : \A h \in Procs \ {g} :
            /\ gs[g].tb # 0 => gs[g].tb # gs[h].tb
            /\ gs[g].hm # 0 => gs[g].hm # gs[h].hm
       /\ \A x \in 1..Len(tbMem) : x \in tbPool \/ \E g \in Procs : gs[g].tb = x
       /\ \A x \in 1..Len(hmMem) : x \in hmPool \/ \E g \in Procs : gs[g].hm = x

C9_Witness ==
    /\ gs["g1"].pc = "sum" /\ gs["g2"].pc = "sum"
    /\ gs["g1"].hm # gs["g2"].hm
    /\ gs["g1"].timeStep # gs["g2"].timeStep
    /\ gs["g2"].gens >= 2
    /\ tbPool = {} /\ hmPool = {}

\* C10: a validation performs at most 2*skew+1 code generations, for every
\* resolved skew and every instant.
C10_AtMostWindowGenerations ==
    \A g \in Procs :
        gs[g].op = "val" => gs[g].gens <= 2 * engine.cfg.Skew + 1

\* For the skews below the largest int64 the loop does end within the window.
WindowBoundBelowMaxSkew ==
    \A g \in Procs :
        (gs[g].op = "val" /\ engine.cfg.Skew < MaxInt) =>
            gs[g].gens <= 2 * engine.cfg.Skew + 1

====
